---- MODULE Spec2Model ----
(***************************************************************************)
(* The scheduling and dispatch core of the ad automation bot (src/main.py): *)
(* the store (DatabaseManager), the tier gate (is_premium), the due-ad      *)
(* detector (_scheduler_loop, _check_and_queue_ads), the dispatch queue     *)
(* (ad_queue), the worker pool (_worker_loop) and the delivery executor     *)
(* (_post_ad, _post_developer_ad).                                          *)
(*                                                                         *)
(* Time is counted in whole units of the minimum ad interval (5 minutes,    *)
(* process_ad_interval line 1171).  The sleeps of the loops (1 s, 10 s,     *)
(* 30 s) are shorter than one unit: a sleeping thread may wake in the same  *)
(* unit or in any later one.                                                *)
(*                                                                         *)
(* Two clocks are in play.  SQLite's CURRENT_TIMESTAMP, which stamps        *)
(* ad_logs.posted_at, is UTC; datetime.now(), which the detector and the    *)
(* tier gate compare against, is the naive local time.  now is the UTC      *)
(* clock and tz the local zone's offset from it.                            *)
(***************************************************************************)
EXTENDS Integers, Sequences, FiniteSets

VARIABLES
    users,          \* table users: user_id -> row
    chats,          \* table linked_chats: chat_id -> row
    ads,            \* table ad_messages: a sequence, id = position (AUTOINCREMENT)
    ad_logs,        \* table ad_logs: a sequence of rows in insertion order
    ad_queue,       \* AdEngine.ad_queue: the dict in insertion order, <<[chat_id, ads]>>
    running,        \* AdEngine.running
    sched_pc,       \* where the scheduler thread is
    rows,           \* the rows of cursor.fetchall() the scheduler still has to visit
    pc,             \* where each worker thread is
    cur,            \* each worker's chat_to_process / ad_to_process
    is_prem,        \* each worker's local is_premium in _post_ad
    err,            \* each worker's e.error_code in the except clause of _post_ad
    now,            \* the UTC clock
    tz,             \* offset of the local zone from UTC
    ADSTERRA_LINK,  \* whether the environment sets ADSTERRA_LINK
    lock,           \* AdEngine.lock: the threads inside a with self.lock block
    n_enq,          \* postings enqueued so far (bounds the run)
    ui,             \* the locals of the menu handler that ran last
    next_step,      \* the handler register_next_step_handler holds for the user
    prem_call       \* the is_premium call that has read its row and not returned

vars == <<users, chats, ads, ad_logs, ad_queue, running, sched_pc, rows,
          pc, cur, is_prem, err, now, tz, ADSTERRA_LINK, lock, n_enq, ui,
          next_step, prem_call>>

store == <<users, chats, ads, ad_logs>>

(***************************************************************************)
(* Bounds and program constants                                            *)
(***************************************************************************)
NumWorkers == 3
MaxTime == 2
MaxAds == 3
MaxPostings == 2
DayUnits == 1

MaxQueued == 2

Workers == 1..NumWorkers
UserIds == {1, 2}
ChatIds == {1, 2}
TzOffsets == {0 - 1, 0, 1}
PremiumDays == {0, 1}

\* line 40
FREE_USER_LIMIT == 1

\* line 1171: the least interval, in minutes, process_ad_interval accepts;
\* it is the unit of time
MinInterval == 5

NULL == <<>>

FREE == "free"
PREMIUM == "premium"

\* datetime.now(): the naive local time
LocalNow == now + tz

\* CURRENT_TIMESTAMP: UTC
CurrentTimestamp == now

(***************************************************************************)
(* DatabaseManager                                                         *)
(***************************************************************************)
\* get_user: the row, or NULL when there is none
get_user(user_id) ==
    IF users[user_id].present THEN <<users[user_id]>> ELSE NULL

\* update_user_tier: the users table after the UPDATE (no row: nothing changes)
update_user_tier(us, user_id, tier, days) ==
    IF ~us[user_id].present THEN us
    ELSE IF tier = PREMIUM /\ days > 0
         THEN [us EXCEPT ![user_id].tier = tier,
                         ![user_id].premium_until = <<LocalNow + days * DayUnits>>]
         ELSE [us EXCEPT ![user_id].tier = tier,
                         ![user_id].premium_until = NULL]

\* the comparison of line 221 with <= in place of <
PremiumExpired_inclusive(u) ==
    u.premium_until # NULL /\ u.premium_until[1] <= LocalNow

\* is_premium: whether the premium has lapsed, for a row that is PREMIUM
PremiumExpired(u) ==
    u.premium_until # NULL /\ u.premium_until[1] < LocalNow

\* is_premium: the value returned
is_premium(user_id) ==
    LET user == get_user(user_id)
    IN  IF user = NULL \/ user[1].tier = FREE THEN FALSE
        ELSE IF PremiumExpired(user[1]) THEN FALSE
        ELSE TRUE

\* is_premium: the users table it leaves (the lazy downgrade)
is_premium_users(user_id) ==
    LET user == get_user(user_id)
    IN  IF user = NULL \/ user[1].tier = FREE THEN users
        ELSE IF PremiumExpired(user[1])
             THEN update_user_tier(users, user_id, FREE, 0)
             ELSE users

\* remove_linked_chat with its first UPDATE written as SET is_active = NOT
\* is_active
remove_linked_chat_chats_toggle(chat_id) ==
    [chats EXCEPT ![chat_id].is_active = ~@]

\* remove_linked_chat: the two UPDATEs
remove_linked_chat_chats(chat_id) ==
    [chats EXCEPT ![chat_id].is_active = FALSE]

\* remove_linked_chat without its second UPDATE: the ads keep their flag
remove_linked_chat_ads_kept(chat_id) ==
    ads

remove_linked_chat_ads(chat_id) ==
    [i \in 1..Len(ads) |->
        IF ads[i].chat_id = chat_id THEN [ads[i] EXCEPT !.is_active = FALSE]
        ELSE ads[i]]

\* add_linked_chat: INSERT OR REPLACE of (chat_id, chat_type, chat_title,
\* user_id, is_active = 1); ad_messages is not touched
add_linked_chat(chat_id, user_id) ==
    [chats EXCEPT ![chat_id] = [user_id |-> user_id, is_active |-> TRUE]]

\* get_user_chats: the active chats of user_id
get_user_chats(user_id) ==
    {c \in ChatIds : chats[c].user_id = user_id /\ chats[c].is_active}

\* DatabaseManager.delete_ad: the UPDATE (no row with that id: nothing changes)
db_delete_ad(ad_id) ==
    [i \in 1..Len(ads) |->
        IF i = ad_id THEN [ads[i] EXCEPT !.is_active = FALSE] ELSE ads[i]]

\* add_ad: the INSERT
add_ad(chat_id, interval_minutes) ==
    Append(ads, [chat_id |-> chat_id, interval |-> interval_minutes,
                 is_active |-> TRUE])

\* log_ad_post: the INSERT; posted_at defaults to CURRENT_TIMESTAMP
log_ad_post(chat_id, ad_id, status) ==
    Append(ad_logs, [chat_id |-> chat_id, ad_id |-> ad_id,
                     posted_at |-> CurrentTimestamp, status |-> status])

(***************************************************************************)
(* Due-ad detector: _scheduler_loop and _check_and_queue_ads               *)
(***************************************************************************)
\* MAX(al.posted_at) of the LEFT JOIN on ad_logs: over every row of the ad,
\* whatever its status; NULL when the ad has no row
MaxPostedAt(ad_id) ==
    LET times == {ad_logs[i].posted_at : i \in {j \in 1..Len(ad_logs) : ad_logs[j].ad_id = ad_id}}
    IN  IF times = {} THEN NULL
        ELSE <<CHOOSE t \in times : \A u \in times : u <= t>>

\* the SELECT without its WHERE clause
QueryWhere_any(ad_id) ==
    TRUE

\* the WHERE clause of the SELECT
QueryWhere(ad_id) ==
    ads[ad_id].is_active /\ chats[ads[ad_id].chat_id].is_active

\* one row of the SELECT
QueryRow(ad_id) ==
    [id |-> ad_id,
     chat_id |-> ads[ad_id].chat_id,
     interval |-> ads[ad_id].interval,
     user_id |-> chats[ads[ad_id].chat_id].user_id,
     last_posted |-> MaxPostedAt(ad_id)]

RECURSIVE QueryFrom(_)
\* the rows of the SELECT ... GROUP BY a.id from ad id n on, in id order
QueryFrom(n) ==
    IF n > Len(ads) THEN <<>>
    ELSE IF QueryWhere(n) THEN <<QueryRow(n)>> \o QueryFrom(n + 1)
    ELSE QueryFrom(n + 1)

\* cursor.fetchall()
Query == QueryFrom(1)

\* next_post of a row (lines 395-398)
NextPost(row) ==
    IF row.last_posted # NULL THEN row.last_posted[1] + row.interval
    ELSE LocalNow

\* the test of line 401
IsDue(row) == LocalNow >= NextPost(row)

\* index of chat_id's entry in the queue, 0 when it has none
QueueIndex(q, chat_id) ==
    IF \E i \in 1..Len(q) : q[i].chat_id = chat_id
    THEN CHOOSE i \in 1..Len(q) : q[i].chat_id = chat_id
    ELSE 0

\* the postings waiting for a chat in queue q, in order
PendingOf(q, chat_id) ==
    IF QueueIndex(q, chat_id) = 0 THEN <<>> ELSE q[QueueIndex(q, chat_id)].ads

\* lines 403-412 with insert(0, ...) in place of append
Enqueue_front(q, chat_id, posting) ==
    LET i == QueueIndex(q, chat_id)
    IN  IF i = 0 THEN Append(q, [chat_id |-> chat_id, ads |-> <<posting>>])
        ELSE [q EXCEPT ![i].ads = <<posting>> \o @]

\* lines 403-412: append to the chat's list, creating the entry at the end of
\* the dict when the chat has none
Enqueue(q, chat_id, posting) ==
    LET i == QueueIndex(q, chat_id)
    IN  IF i = 0 THEN Append(q, [chat_id |-> chat_id, ads |-> <<posting>>])
        ELSE [q EXCEPT ![i].ads = Append(@, posting)]

\* the dict of a row put in the queue (lines 405-412; content and media are
\* left out).  entitled is a history field the dict does not have: whether
\* the owner was entitled when the posting was enqueued
Posting(row) ==
    [ad_id |-> row.id, user_id |-> row.user_id,
     entitled |-> is_premium(row.user_id)]

\* line 367 entered, lines 378-386: the SELECT has run
SchedulerQuery ==
    /\ sched_pc = "loop"
    /\ running
    /\ rows' = Query
    /\ sched_pc' = "scan"
    /\ UNCHANGED <<users, chats, ads, ad_logs, ad_queue, running, pc, cur,
                   is_prem, err, now, tz, ADSTERRA_LINK, lock, n_enq, ui,
                   next_step, prem_call>>

\* the for loop resolving the owner's tier with db.is_premium when it
\* enqueues, lazy downgrade included
SchedulerRow_resolving ==
    /\ sched_pc = "scan"
    /\ rows # <<>>
    /\ LET row == Head(rows)
       IN  IF IsDue(row)
           THEN /\ n_enq < MaxPostings
                /\ ad_queue' = Enqueue(ad_queue, row.chat_id, Posting(row))
                /\ n_enq' = n_enq + 1
                /\ users' = is_premium_users(row.user_id)
           ELSE UNCHANGED <<ad_queue, n_enq, users>>
    /\ rows' = Tail(rows)
    /\ UNCHANGED <<chats, ads, ad_logs, running, sched_pc, pc, cur, is_prem,
                   err, now, tz, ADSTERRA_LINK, lock, ui, next_step, prem_call>>

\* one pass of the for loop of line 388 over the next row
SchedulerRow ==
    /\ sched_pc = "scan"
    /\ rows # <<>>
    /\ LET row == Head(rows)
       IN  IF IsDue(row)
           THEN /\ n_enq < MaxPostings
                /\ ad_queue' = Enqueue(ad_queue, row.chat_id, Posting(row))
                /\ n_enq' = n_enq + 1
           ELSE UNCHANGED <<ad_queue, n_enq>>
    /\ rows' = Tail(rows)
    /\ UNCHANGED <<users, chats, ads, ad_logs, running, sched_pc, pc, cur,
                   is_prem, err, now, tz, ADSTERRA_LINK, lock, ui, next_step,
                   prem_call>>

\* one pass of the for loop of line 388 over the next row, for runs without
\* end: of a list only the first MaxQueued postings are tracked, and the
\* enqueues are not counted
SchedulerRowCapped ==
    /\ sched_pc = "scan"
    /\ rows # <<>>
    /\ LET row == Head(rows)
       IN  ad_queue' =
             IF IsDue(row) /\ Len(PendingOf(ad_queue, row.chat_id)) < MaxQueued
             THEN Enqueue(ad_queue, row.chat_id, Posting(row))
             ELSE ad_queue
    /\ rows' = Tail(rows)
    /\ UNCHANGED <<users, chats, ads, ad_logs, running, sched_pc, pc, cur,
                   is_prem, err, now, tz, ADSTERRA_LINK, lock, n_enq, ui,
                   next_step, prem_call>>

\* the for loop is over: time.sleep(10), line 368
SchedulerSleep ==
    /\ sched_pc = "scan"
    /\ rows = <<>>
    /\ sched_pc' = "sleep"
    /\ UNCHANGED <<users, chats, ads, ad_logs, ad_queue, running, rows, pc,
                   cur, is_prem, err, now, tz, ADSTERRA_LINK, lock, n_enq, ui,
                   next_step, prem_call>>

\* the sleep is over: back to the while of line 365
SchedulerWake ==
    /\ sched_pc = "sleep"
    /\ sched_pc' = "loop"
    /\ UNCHANGED <<users, chats, ads, ad_logs, ad_queue, running, rows, pc,
                   cur, is_prem, err, now, tz, ADSTERRA_LINK, lock, n_enq, ui,
                   next_step, prem_call>>

\* _check_and_queue_ads as the source has it: line 374 asks the AdEngine for
\* get_connection, which only DatabaseManager defines (line 100; the class
\* body of AdEngine, lines 336-497, has none), so the call raises
\* AttributeError before the SELECT and control passes to line 369
_check_and_queue_ads ==
    /\ sched_pc = "loop"
    /\ running
    /\ sched_pc' = "except"
    /\ UNCHANGED <<users, chats, ads, ad_logs, ad_queue, running, rows, pc,
                   cur, is_prem, err, now, tz, ADSTERRA_LINK, lock, n_enq, ui,
                   next_step, prem_call>>

\* lines 369-370: the error is logged and the while loop goes on, the
\* sleep of line 368 skipped
SchedulerExcept ==
    /\ sched_pc = "except"
    /\ sched_pc' = "loop"
    /\ UNCHANGED <<users, chats, ads, ad_logs, ad_queue, running, rows, pc,
                   cur, is_prem, err, now, tz, ADSTERRA_LINK, lock, n_enq, ui,
                   next_step, prem_call>>

(***************************************************************************)
(* Worker pool and delivery executor: _worker_loop, _post_ad,              *)
(* _post_developer_ad                                                      *)
(***************************************************************************)
NoPosting == [chat_id |-> 0, ad_id |-> 0, user_id |-> 0, entitled |-> FALSE]

\* what a send call of the transport can do: return, raise
\* ApiTelegramException with error_code 403 (the bot was removed from the
\* chat), with error_code 400 (chat not found), with another code ("api"),
\* or raise anything else (a network-level exception of requests)
SendOutcomes == {"ok", "403", "400", "api", "net"}

\* no ApiTelegramException is bound to e
NoError == "none"

\* e.error_code of the exception outcome o raises, line 477
ErrorCode(o) ==
    IF o \in {"403", "400", "api"} THEN o ELSE NoError

\* lines 422-428: the first entry of the dict whose list is not empty
FirstPending(q) ==
    IF \E i \in 1..Len(q) : q[i].ads # <<>>
    THEN CHOOSE i \in 1..Len(q) :
            /\ q[i].ads # <<>>
            /\ \A j \in 1..(i - 1) : q[j].ads = <<>>
    ELSE 0

\* line 425 reading ads[0] where the source has ads.pop(0)
Dequeue_peek(q, i) ==
    q

\* line 425 alone: pop(0) without the del of lines 426-427
Dequeue_keeping(q, i) ==
    [q EXCEPT ![i].ads = Tail(@)]

\* lines 425-427: pop(0), and del of the entry when its list is now empty
Dequeue(q, i) ==
    IF Len(q[i].ads) = 1
    THEN [j \in 1..(Len(q) - 1) |-> IF j < i THEN q[j] ELSE q[j + 1]]
    ELSE [q EXCEPT ![i].ads = Tail(@)]

\* _worker_loop with while True in place of while self.running
WorkerDequeue_forever(w) ==
    /\ pc[w] = "idle"
    /\ LET i == FirstPending(ad_queue)
       IN  IF i = 0
           THEN UNCHANGED <<ad_queue, pc, cur>>
           ELSE /\ ad_queue' = Dequeue(ad_queue, i)
                /\ cur' = [cur EXCEPT ![w] =
                              [chat_id |-> ad_queue[i].chat_id,
                               ad_id |-> Head(ad_queue[i].ads).ad_id,
                               user_id |-> Head(ad_queue[i].ads).user_id,
                               entitled |-> Head(ad_queue[i].ads).entitled]]
                /\ pc' = [pc EXCEPT ![w] = "post"]
    /\ UNCHANGED <<users, chats, ads, ad_logs, running, sched_pc, rows,
                   is_prem, err, now, tz, ADSTERRA_LINK, lock, n_enq, ui,
                   next_step, prem_call>>

\* lines 416-428: one pass of the while loop up to the end of the with block;
\* with nothing pending the pass ends in the sleep of line 433
WorkerDequeue(w) ==
    /\ pc[w] = "idle"
    /\ running
    /\ LET i == FirstPending(ad_queue)
       IN  IF i = 0
           THEN UNCHANGED <<ad_queue, pc, cur>>
           ELSE /\ ad_queue' = Dequeue(ad_queue, i)
                /\ cur' = [cur EXCEPT ![w] =
                              [chat_id |-> ad_queue[i].chat_id,
                               ad_id |-> Head(ad_queue[i].ads).ad_id,
                               user_id |-> Head(ad_queue[i].ads).user_id,
                               entitled |-> Head(ad_queue[i].ads).entitled]]
                /\ pc' = [pc EXCEPT ![w] = "post"]
    /\ UNCHANGED <<users, chats, ads, ad_logs, running, sched_pc, rows,
                   is_prem, err, now, tz, ADSTERRA_LINK, lock, n_enq, ui,
                   next_step, prem_call>>

\* _post_ad taking the entitlement the posting had when it was enqueued
\* instead of asking the tier gate
PostBegin_cached(w) ==
    /\ pc[w] = "post"
    /\ is_prem' = [is_prem EXCEPT ![w] = cur[w].entitled]
    /\ pc' = [pc EXCEPT ![w] = "sending"]
    /\ UNCHANGED <<users, chats, ads, ad_logs, ad_queue, running, sched_pc,
                   rows, cur, err, now, tz, ADSTERRA_LINK, lock, n_enq, ui,
                   next_step, prem_call>>

\* _post_ad, lines 441-442, and the send call of lines 445-464 begun
PostBegin(w) ==
    /\ pc[w] = "post"
    /\ is_prem' = [is_prem EXCEPT ![w] = is_premium(cur[w].user_id)]
    /\ users' = is_premium_users(cur[w].user_id)
    /\ pc' = [pc EXCEPT ![w] = "sending"]
    /\ UNCHANGED <<chats, ads, ad_logs, ad_queue, running, sched_pc, rows,
                   cur, err, now, tz, ADSTERRA_LINK, lock, n_enq, ui,
                   next_step, prem_call>>

\* line 470 without the test of is_premium
SponsorDue_any(w) == ADSTERRA_LINK

\* line 470
SponsorDue(w) == ~is_prem[w] /\ ADSTERRA_LINK

\* where the send call of lines 445-464 leaves the worker
AfterSend(o) ==
    CASE o = "ok" -> "sent"
      [] o = "403" -> "kicked"
      [] o \in {"400", "api"} -> "failed"
      [] OTHER -> "except"

\* the send call of lines 445-464 ends with outcome o: it returns (line 467
\* is next), raises ApiTelegramException (line 476 catches it; line 477 tells
\* 403 from the other codes) or raises another exception, which no clause of
\* _post_ad catches: it leaves _post_ad at line 431 and reaches the handler
\* of _worker_loop, line 435
Send(w, o) ==
    /\ pc[w] = "sending"
    /\ pc' = [pc EXCEPT ![w] = AfterSend(o)]
    /\ err' = [err EXCEPT ![w] = ErrorCode(o)]
    /\ UNCHANGED <<users, chats, ads, ad_logs, ad_queue, running, sched_pc,
                   rows, cur, is_prem, now, tz, ADSTERRA_LINK, lock,
                   n_enq, ui, next_step, prem_call>>

\* _post_ad without line 467: the delivery is not recorded
PostSent_unlogged(w) ==
    /\ pc[w] = "sent"
    /\ IF SponsorDue(w)
       THEN /\ pc' = [pc EXCEPT ![w] = "sponsor_wait"]
            /\ UNCHANGED <<cur, is_prem, err>>
       ELSE /\ pc' = [pc EXCEPT ![w] = "idle"]
            /\ cur' = [cur EXCEPT ![w] = NoPosting]
            /\ is_prem' = [is_prem EXCEPT ![w] = FALSE]
            /\ err' = [err EXCEPT ![w] = NoError]
    /\ UNCHANGED <<users, chats, ads, ad_logs, ad_queue, running, sched_pc,
                   rows, now, tz, ADSTERRA_LINK, lock, n_enq, ui, next_step,
                   prem_call>>

\* line 467, then line 470; without a sponsor message _post_ad ends at
\* line 474 and the worker sleeps (line 433)
PostSent(w) ==
    /\ pc[w] = "sent"
    /\ ad_logs' = log_ad_post(cur[w].chat_id, cur[w].ad_id, "success")
    /\ IF SponsorDue(w)
       THEN /\ pc' = [pc EXCEPT ![w] = "sponsor_wait"]
            /\ UNCHANGED <<cur, is_prem, err>>
       ELSE /\ pc' = [pc EXCEPT ![w] = "idle"]
            /\ cur' = [cur EXCEPT ![w] = NoPosting]
            /\ is_prem' = [is_prem EXCEPT ![w] = FALSE]
            /\ err' = [err EXCEPT ![w] = NoError]
    /\ UNCHANGED <<users, chats, ads, ad_queue, running, sched_pc, rows, now,
                   tz, ADSTERRA_LINK, lock, n_enq, ui, next_step, prem_call>>

\* lines 477-479 with a remove_linked_chat that also deletes the chat's rows
\* of ad_logs
PostKicked_purging(w) ==
    /\ pc[w] = "kicked"
    /\ chats' = remove_linked_chat_chats(cur[w].chat_id)
    /\ ads' = remove_linked_chat_ads(cur[w].chat_id)
    /\ ad_logs' = SelectSeq(ad_logs, LAMBDA r : r.chat_id # cur[w].chat_id)
    /\ pc' = [pc EXCEPT ![w] = "idle"]
    /\ cur' = [cur EXCEPT ![w] = NoPosting]
    /\ is_prem' = [is_prem EXCEPT ![w] = FALSE]
    /\ err' = [err EXCEPT ![w] = NoError]
    /\ UNCHANGED <<users, ad_queue, running, sched_pc, rows, now, tz,
                   ADSTERRA_LINK, lock, n_enq, ui, next_step, prem_call>>

\* lines 477-479: error_code 403
PostKicked(w) ==
    /\ pc[w] = "kicked"
    /\ chats' = remove_linked_chat_chats(cur[w].chat_id)
    /\ ads' = remove_linked_chat_ads(cur[w].chat_id)
    /\ pc' = [pc EXCEPT ![w] = "idle"]
    /\ cur' = [cur EXCEPT ![w] = NoPosting]
    /\ is_prem' = [is_prem EXCEPT ![w] = FALSE]
    /\ err' = [err EXCEPT ![w] = NoError]
    /\ UNCHANGED <<users, ad_logs, ad_queue, running, sched_pc, rows, now, tz,
                   ADSTERRA_LINK, lock, n_enq, ui, next_step, prem_call>>

\* lines 480-482: another error code
PostFailed(w) ==
    /\ pc[w] = "failed"
    /\ ad_logs' = log_ad_post(cur[w].chat_id, cur[w].ad_id, "failed")
    /\ pc' = [pc EXCEPT ![w] = "idle"]
    /\ cur' = [cur EXCEPT ![w] = NoPosting]
    /\ is_prem' = [is_prem EXCEPT ![w] = FALSE]
    /\ err' = [err EXCEPT ![w] = NoError]
    /\ UNCHANGED <<users, chats, ads, ad_queue, running, sched_pc, rows, now,
                   tz, ADSTERRA_LINK, lock, n_enq, ui, next_step, prem_call>>

\* _worker_loop without the handler of line 435: the exception ends the
\* thread
WorkerExcept_fatal(w) ==
    /\ pc[w] = "except"
    /\ pc' = [pc EXCEPT ![w] = "dead"]
    /\ UNCHANGED <<users, chats, ads, ad_logs, ad_queue, running, sched_pc,
                   rows, cur, is_prem, err, now, tz, ADSTERRA_LINK, lock,
                   n_enq, ui, next_step, prem_call>>

\* lines 435-436: the error is logged and the while loop goes on, the sleep
\* of line 433 skipped
WorkerExcept(w) ==
    /\ pc[w] = "except"
    /\ pc' = [pc EXCEPT ![w] = "idle"]
    /\ cur' = [cur EXCEPT ![w] = NoPosting]
    /\ is_prem' = [is_prem EXCEPT ![w] = FALSE]
    /\ err' = [err EXCEPT ![w] = NoError]
    /\ UNCHANGED <<users, chats, ads, ad_logs, ad_queue, running, sched_pc,
                   rows, now, tz, ADSTERRA_LINK, lock, n_enq, ui, next_step,
                   prem_call>>

\* line 471: time.sleep(DEVELOPER_AD_DELAY) is over
SponsorWake(w) ==
    /\ pc[w] = "sponsor_wait"
    /\ pc' = [pc EXCEPT ![w] = "sponsor_send"]
    /\ UNCHANGED <<users, chats, ads, ad_logs, ad_queue, running, sched_pc,
                   rows, cur, is_prem, err, now, tz, ADSTERRA_LINK, lock,
                   n_enq, ui, next_step, prem_call>>

\* _post_developer_ad: the send of line 495 returned; _post_ad ends at
\* line 474 and the worker sleeps (line 433)
_post_developer_ad(w) ==
    /\ pc[w] = "sponsor_send"
    /\ pc' = [pc EXCEPT ![w] = "idle"]
    /\ cur' = [cur EXCEPT ![w] = NoPosting]
    /\ is_prem' = [is_prem EXCEPT ![w] = FALSE]
    /\ err' = [err EXCEPT ![w] = NoError]
    /\ UNCHANGED <<users, chats, ads, ad_logs, ad_queue, running, sched_pc,
                   rows, now, tz, ADSTERRA_LINK, lock, n_enq, ui, next_step,
                   prem_call>>

\* _post_developer_ad letting error_code 403 reach the handler of line 476,
\* which removes the chat
SponsorRaised_escalated(w, o) ==
    /\ pc[w] = "sponsor_send"
    /\ o # "ok"
    /\ pc' = [pc EXCEPT ![w] = "sponsor_except"]
    /\ chats' = IF o = "403" THEN remove_linked_chat_chats(cur[w].chat_id) ELSE chats
    /\ ads' = IF o = "403" THEN remove_linked_chat_ads(cur[w].chat_id) ELSE ads
    /\ UNCHANGED <<users, ad_logs, ad_queue, running, sched_pc, rows, cur,
                   is_prem, err, now, tz, ADSTERRA_LINK, lock, n_enq, ui,
                   next_step, prem_call>>

\* _post_developer_ad: the send of line 495 raised (o: error_code 403,
\* another code, or no ApiTelegramException at all); line 496 catches
\* every Exception
SponsorRaised(w, o) ==
    /\ pc[w] = "sponsor_send"
    /\ o # "ok"
    /\ pc' = [pc EXCEPT ![w] = "sponsor_except"]
    /\ UNCHANGED <<users, chats, ads, ad_logs, ad_queue, running, sched_pc,
                   rows, cur, is_prem, err, now, tz, ADSTERRA_LINK, lock,
                   n_enq, ui, next_step, prem_call>>

\* line 497: the error is logged, _post_developer_ad returns and _post_ad
\* ends at line 474
SponsorExcept(w) ==
    /\ pc[w] = "sponsor_except"
    /\ pc' = [pc EXCEPT ![w] = "idle"]
    /\ cur' = [cur EXCEPT ![w] = NoPosting]
    /\ is_prem' = [is_prem EXCEPT ![w] = FALSE]
    /\ err' = [err EXCEPT ![w] = NoError]
    /\ UNCHANGED <<users, chats, ads, ad_logs, ad_queue, running, sched_pc,
                   rows, now, tz, ADSTERRA_LINK, lock, n_enq, ui, next_step,
                   prem_call>>

(***************************************************************************)
(* The queue operations step by step: the with self.lock blocks of         *)
(* _check_and_queue_ads (lines 402-412) and _worker_loop (lines 421-428)   *)
(***************************************************************************)
\* the scheduler is the first thread start() creates (line 347), the workers
\* are threads 1..NumWorkers
SchedulerThread == 0

Threads == {SchedulerThread} \cup Workers

\* line 401 false: the row is not due, the for loop goes to the next row
RowSkip ==
    /\ sched_pc = "scan"
    /\ rows # <<>>
    /\ ~IsDue(Head(rows))
    /\ rows' = Tail(rows)
    /\ UNCHANGED <<users, chats, ads, ad_logs, ad_queue, running, sched_pc,
                   pc, cur, is_prem, err, now, tz, ADSTERRA_LINK, lock, n_enq,
                   ui, next_step, prem_call>>

\* line 401 true, line 402: the scheduler enters with self.lock, which blocks
\* while another thread is inside
RowAcquire ==
    /\ sched_pc = "scan"
    /\ rows # <<>>
    /\ IsDue(Head(rows))
    /\ n_enq < MaxPostings
    /\ lock = {}
    /\ lock' = lock \cup {SchedulerThread}
    /\ sched_pc' = "locked"
    /\ UNCHANGED <<users, chats, ads, ad_logs, ad_queue, running, rows, pc,
                   cur, is_prem, err, now, tz, ADSTERRA_LINK, n_enq, ui,
                   next_step, prem_call>>

\* lines 403-404: the chat gets an empty list when it has no entry
RowCreate ==
    /\ sched_pc = "locked"
    /\ ad_queue' = IF QueueIndex(ad_queue, Head(rows).chat_id) = 0
                   THEN Append(ad_queue, [chat_id |-> Head(rows).chat_id, ads |-> <<>>])
                   ELSE ad_queue
    /\ sched_pc' = "append"
    /\ UNCHANGED <<users, chats, ads, ad_logs, running, rows, pc, cur,
                   is_prem, err, now, tz, ADSTERRA_LINK, lock, n_enq, ui,
                   next_step, prem_call>>

\* lines 405-412: the posting is appended to the chat's list
RowAppend ==
    /\ sched_pc = "append"
    /\ ad_queue' = [ad_queue EXCEPT ![QueueIndex(ad_queue, Head(rows).chat_id)].ads =
                        Append(@, Posting(Head(rows)))]
    /\ n_enq' = n_enq + 1
    /\ sched_pc' = "unlock"
    /\ UNCHANGED <<users, chats, ads, ad_logs, running, rows, pc, cur,
                   is_prem, err, now, tz, ADSTERRA_LINK, lock, ui, next_step,
                   prem_call>>

\* the with block of line 402 is left: the lock is released and the for loop
\* goes to the next row
RowRelease ==
    /\ sched_pc = "unlock"
    /\ lock' = lock \ {SchedulerThread}
    /\ rows' = Tail(rows)
    /\ sched_pc' = "scan"
    /\ UNCHANGED <<users, chats, ads, ad_logs, ad_queue, running, pc, cur,
                   is_prem, err, now, tz, ADSTERRA_LINK, n_enq, ui, next_step,
                   prem_call>>

\* line 421 without the wait: the worker goes on whoever holds the lock
WorkerAcquire_unlocked(w) ==
    /\ pc[w] = "idle"
    /\ running
    /\ lock' = lock \cup {w}
    /\ pc' = [pc EXCEPT ![w] = "locked"]
    /\ UNCHANGED <<users, chats, ads, ad_logs, ad_queue, running, sched_pc,
                   rows, cur, is_prem, err, now, tz, ADSTERRA_LINK, n_enq, ui,
                   next_step, prem_call>>

\* lines 416-421: the worker enters with self.lock, which blocks while
\* another thread is inside
WorkerAcquire(w) ==
    /\ pc[w] = "idle"
    /\ running
    /\ lock = {}
    /\ lock' = lock \cup {w}
    /\ pc' = [pc EXCEPT ![w] = "locked"]
    /\ UNCHANGED <<users, chats, ads, ad_logs, ad_queue, running, sched_pc,
                   rows, cur, is_prem, err, now, tz, ADSTERRA_LINK, n_enq, ui,
                   next_step, prem_call>>

\* lines 422-428: the first chat with a non-empty list, pop(0), del
WorkerPop(w) ==
    /\ pc[w] = "locked"
    /\ LET i == FirstPending(ad_queue)
       IN  IF i = 0
           THEN UNCHANGED <<ad_queue, cur>>
           ELSE /\ ad_queue' = Dequeue(ad_queue, i)
                /\ cur' = [cur EXCEPT ![w] =
                              [chat_id |-> ad_queue[i].chat_id,
                               ad_id |-> Head(ad_queue[i].ads).ad_id,
                               user_id |-> Head(ad_queue[i].ads).user_id,
                               entitled |-> Head(ad_queue[i].ads).entitled]]
    /\ pc' = [pc EXCEPT ![w] = "unlock"]
    /\ UNCHANGED <<users, chats, ads, ad_logs, running, sched_pc, rows,
                   is_prem, err, now, tz, ADSTERRA_LINK, lock, n_enq, ui,
                   next_step, prem_call>>

\* lines 421-431 with the call of _post_ad inside the with block: the lock
\* is kept through the delivery
WorkerRelease_holding(w) ==
    /\ pc[w] = "unlock"
    /\ lock' = IF cur[w] = NoPosting THEN lock \ {w} ELSE lock
    /\ pc' = [pc EXCEPT ![w] = IF cur[w] = NoPosting THEN "idle" ELSE "post"]
    /\ UNCHANGED <<users, chats, ads, ad_logs, ad_queue, running, sched_pc,
                   rows, cur, is_prem, err, now, tz, ADSTERRA_LINK, n_enq, ui,
                   next_step, prem_call>>

\* the with block of line 421 is left: the lock is released; line 430 calls
\* _post_ad when a posting was taken, else the pass ends in the sleep of
\* line 433
WorkerRelease(w) ==
    /\ pc[w] = "unlock"
    /\ lock' = lock \ {w}
    /\ pc' = [pc EXCEPT ![w] = IF cur[w] = NoPosting THEN "idle" ELSE "post"]
    /\ UNCHANGED <<users, chats, ads, ad_logs, ad_queue, running, sched_pc,
                   rows, cur, is_prem, err, now, tz, ADSTERRA_LINK, n_enq, ui,
                   next_step, prem_call>>

(***************************************************************************)
(* Shutdown: AdEngine.stop and the end of the process (lines 1887-1894)    *)
(***************************************************************************)
\* stop, line 361
stop ==
    /\ running
    /\ running' = FALSE
    /\ UNCHANGED <<users, chats, ads, ad_logs, ad_queue, sched_pc, rows, pc,
                   cur, is_prem, err, now, tz, ADSTERRA_LINK, lock, n_enq, ui,
                   next_step, prem_call>>

\* line 365: while self.running is false, _scheduler_loop returns
SchedulerExit ==
    /\ sched_pc = "loop"
    /\ ~running
    /\ sched_pc' = "done"
    /\ UNCHANGED <<users, chats, ads, ad_logs, ad_queue, running, rows, pc,
                   cur, is_prem, err, now, tz, ADSTERRA_LINK, lock, n_enq, ui,
                   next_step, prem_call>>

\* line 416: while self.running is false, _worker_loop returns
WorkerExit(w) ==
    /\ pc[w] = "idle"
    /\ ~running
    /\ pc' = [pc EXCEPT ![w] = "done"]
    /\ UNCHANGED <<users, chats, ads, ad_logs, ad_queue, running, sched_pc,
                   rows, cur, is_prem, err, now, tz, ADSTERRA_LINK, lock,
                   n_enq, ui, next_step, prem_call>>

\* stop is the last statement of the main thread (line 1894) and no thread is
\* joined: the interpreter exits, and the threads, all created with
\* daemon=True (lines 347, 353), end wherever they are
process_exit ==
    /\ ~running
    /\ sched_pc \notin {"done", "dead"} \/ \E w \in Workers : pc[w] \notin {"done", "dead"}
    /\ sched_pc' = IF sched_pc = "done" THEN "done" ELSE "dead"
    /\ pc' = [w \in Workers |-> IF pc[w] = "done" THEN "done" ELSE "dead"]
    /\ UNCHANGED <<users, chats, ads, ad_logs, ad_queue, running, rows, cur,
                   is_prem, err, now, tz, ADSTERRA_LINK, lock, n_enq, ui,
                   next_step, prem_call>>

(***************************************************************************)
(* Handlers of the conversational layer that read or write the store       *)
(***************************************************************************)
\* create_or_update_user: INSERT OR REPLACE of (user_id, username,
\* first_name, tier): the row is replaced, tier keeps its old value (free for
\* a new row) and premium_until, which the statement does not name, is NULL
create_or_update_user(user_id) ==
    [users EXCEPT ![user_id] =
        [present |-> TRUE,
         tier |-> IF users[user_id].present THEN users[user_id].tier ELSE FREE,
         premium_until |-> NULL]]

\* start_command, line 607; the calls of db.is_premium of lines 625-626 find
\* premium_until NULL in the row just written and write nothing
start_command(user_id) ==
    /\ users' = create_or_update_user(user_id)
    /\ UNCHANGED <<chats, ads, ad_logs, ad_queue, running, sched_pc, rows, pc,
                   cur, is_prem, err, now, tz, ADSTERRA_LINK, lock, n_enq, ui,
                   next_step, prem_call>>

\* UIBuilder.main_menu, line 507: is_premium = db.is_premium(user_id); ui
\* keeps the argument, the row get_user returned to is_premium (line 217),
\* the value returned and the local time of the call
main_menu(user_id) ==
    /\ ui' = [user_id |-> user_id, user |-> get_user(user_id),
              is_premium |-> is_premium(user_id), at |-> LocalNow]
    /\ users' = is_premium_users(user_id)
    /\ UNCHANGED <<chats, ads, ad_logs, ad_queue, running, sched_pc, rows, pc,
                   cur, is_prem, err, now, tz, ADSTERRA_LINK, lock, n_enq,
                   next_step, prem_call>>

\* message.text as a sequence of characters; <<>> is None, the text of a
\* message that carries a photo or a video
NoText == <<>>

Cancel == <<"/", "c", "a", "n", "c", "e", "l">>

\* what the user sends at a prompt of the ad creation flow
MessageTexts ==
    {NoText, Cancel, <<"a", "d">>, <<"4">>, <<"5">>, <<"1", "0">>, <<"-", "5">>,
     <<"5", ".", "5">>}

DigitValue(c) ==
    CASE c = "0" -> 0 [] c = "1" -> 1 [] c = "2" -> 2 [] c = "3" -> 3
      [] c = "4" -> 4 [] c = "5" -> 5 [] c = "6" -> 6 [] c = "7" -> 7
      [] c = "8" -> 8 [] c = "9" -> 9

IsDigits(text) ==
    /\ text # <<>>
    /\ \A i \in 1..Len(text) :
          text[i] \in {"0", "1", "2", "3", "4", "5", "6", "7", "8", "9"}

RECURSIVE DigitsValue(_)
DigitsValue(text) ==
    IF text = <<>> THEN 0
    ELSE 10 * DigitsValue(SubSeq(text, 1, Len(text) - 1)) + DigitValue(text[Len(text)])

\* int(message.text), line 1170: the value of a decimal numeral with an
\* optional sign; ValueError for another string, TypeError for None
int(text) ==
    IF text = NoText THEN [raised |-> "TypeError", value |-> 0]
    ELSE IF IsDigits(text) THEN [raised |-> NoError, value |-> DigitsValue(text)]
    ELSE IF Head(text) \in {"+", "-"} /\ IsDigits(Tail(text))
         THEN [raised |-> NoError,
               value |-> (IF Head(text) = "-" THEN 0 - 1 ELSE 1) * DigitsValue(Tail(text))]
    ELSE [raised |-> "ValueError", value |-> 0]

\* the interval of the store, counted in units of MinInterval minutes
Units(minutes) == minutes \div MinInterval

\* request_ad_content, line 1129: the callback add_ad_<chat_id> (lines
\* 888-890) registers process_ad_content for the next message of the user
request_ad_content(chat_id) ==
    /\ next_step = NULL
    /\ next_step' = <<[handler |-> "process_ad_content", chat_id |-> chat_id]>>
    /\ UNCHANGED <<users, chats, ads, ad_logs, ad_queue, running, sched_pc,
                   rows, pc, cur, is_prem, err, now, tz, ADSTERRA_LINK, lock,
                   n_enq, ui, prem_call>>

\* process_ad_content: /cancel ends the flow (lines 1133-1135), any other
\* message registers process_ad_interval (line 1161)
process_ad_content(text) ==
    /\ next_step # NULL
    /\ next_step[1].handler = "process_ad_content"
    /\ next_step' = IF text = Cancel THEN NULL
                    ELSE <<[handler |-> "process_ad_interval",
                            chat_id |-> next_step[1].chat_id]>>
    /\ UNCHANGED <<users, chats, ads, ad_logs, ad_queue, running, sched_pc,
                   rows, pc, cur, is_prem, err, now, tz, ADSTERRA_LINK, lock,
                   n_enq, ui, prem_call>>

\* lines 1171-1172: the interval is not below the floor
IntervalAccepted(interval) == ~(interval < MinInterval)

\* process_ad_interval: /cancel ends the flow (lines 1165-1167); an integer
\* that passes line 1171 is stored with db.add_ad (line 1175); ValueError,
\* raised by int or by line 1172, registers the handler again (line 1200);
\* the TypeError int raises for a message without text is caught nowhere
\* and leaves the handler with nothing registered
process_ad_interval(text) ==
    /\ next_step # NULL
    /\ next_step[1].handler = "process_ad_interval"
    /\ Len(ads) < MaxAds
    /\ LET interval == int(text)
       IN  IF text = Cancel \/ interval.raised = "TypeError"
           THEN /\ next_step' = NULL
                /\ UNCHANGED ads
           ELSE IF interval.raised = "ValueError" \/ ~IntervalAccepted(interval.value)
           THEN UNCHANGED <<next_step, ads>>
           ELSE /\ ads' = add_ad(next_step[1].chat_id, Units(interval.value))
                /\ next_step' = NULL
    /\ UNCHANGED <<users, chats, ad_logs, ad_queue, running, sched_pc, rows,
                   pc, cur, is_prem, err, now, tz, ADSTERRA_LINK, lock, n_enq,
                   ui, prem_call>>

\* the handler delete_ad, line 1289: the callback delete_ad_<ad_id>
delete_ad(ad_id) ==
    /\ ad_id \in 1..Len(ads)
    /\ ads' = db_delete_ad(ad_id)
    /\ UNCHANGED <<users, chats, ad_logs, ad_queue, running, sched_pc, rows,
                   pc, cur, is_prem, err, now, tz, ADSTERRA_LINK, lock, n_enq,
                   ui, next_step, prem_call>>

\* remove_chat, line 1321: the callback confirm_remove_<chat_id>
remove_chat(chat_id) ==
    /\ chats' = remove_linked_chat_chats(chat_id)
    /\ ads' = remove_linked_chat_ads(chat_id)
    /\ UNCHANGED <<users, ad_logs, ad_queue, running, sched_pc, rows, pc, cur,
                   is_prem, err, now, tz, ADSTERRA_LINK, lock, n_enq, ui,
                   next_step, prem_call>>

\* setup_command, lines 647-665: past the limit a free account is turned
\* away, else the chat is linked to the sender
setup_command(chat_id, user_id) ==
    /\ users' = is_premium_users(user_id)
    /\ chats' = IF ~is_premium(user_id)
                    /\ Cardinality(get_user_chats(user_id)) >= FREE_USER_LIMIT
                 THEN chats
                 ELSE add_linked_chat(chat_id, user_id)
    /\ UNCHANGED <<ads, ad_logs, ad_queue, running, sched_pc, rows, pc, cur,
                   is_prem, err, now, tz, ADSTERRA_LINK, lock, n_enq, ui,
                   next_step, prem_call>>

\* handle_channel_add, lines 694-727, run at every post of a channel the bot
\* is in: user_id is the creator get_chat_administrators names, else the
\* sender of the post, else None (0 here), for which line 707 returns; past
\* the limit a free account is turned away, else the channel is linked
handle_channel_add(chat_id, user_id) ==
    /\ IF user_id = 0
       THEN UNCHANGED <<users, chats>>
       ELSE /\ users' = is_premium_users(user_id)
            /\ chats' = IF ~is_premium(user_id)
                            /\ Cardinality(get_user_chats(user_id)) >= FREE_USER_LIMIT
                         THEN chats
                         ELSE add_linked_chat(chat_id, user_id)
    /\ UNCHANGED <<ads, ad_logs, ad_queue, running, sched_pc, rows, pc, cur,
                   is_prem, err, now, tz, ADSTERRA_LINK, lock, n_enq, ui,
                   next_step, prem_call>>

\* cleanup_inactive_chats, lines 1846-1857, for one active chat: get_chat or
\* send_chat_action ends with outcome o; error_code 403 and 400 remove the
\* chat, every other outcome leaves the store alone
cleanup_inactive_chats(chat_id, o) ==
    /\ chats[chat_id].is_active
    /\ chats' = IF ErrorCode(o) \in {"403", "400"}
                 THEN remove_linked_chat_chats(chat_id) ELSE chats
    /\ ads' = IF ErrorCode(o) \in {"403", "400"}
               THEN remove_linked_chat_ads(chat_id) ELSE ads
    /\ UNCHANGED <<users, ad_logs, ad_queue, running, sched_pc, rows, pc, cur,
                   is_prem, err, now, tz, ADSTERRA_LINK, lock, n_enq, ui,
                   next_step, prem_call>>

\* is_premium, lines 217-221: get_user has returned the row and the tests of
\* lines 218 and 220 are made; lapsed says that line 222 is next
is_premium_get_user(user_id) ==
    /\ prem_call = NULL
    /\ LET user == get_user(user_id)
       IN  prem_call' = <<[user_id |-> user_id, user |-> user,
                           lapsed |-> /\ user # NULL
                                      /\ user[1].tier # FREE
                                      /\ PremiumExpired(user[1])]>>
    /\ UNCHANGED <<users, chats, ads, ad_logs, ad_queue, running, sched_pc,
                   rows, pc, cur, is_prem, err, now, tz, ADSTERRA_LINK, lock,
                   n_enq, ui, next_step>>

\* is_premium, lines 222-224: the UPDATE of update_user_tier, which names
\* the account alone, and the value returned
is_premium_return ==
    /\ prem_call # NULL
    /\ LET user_id == prem_call[1].user_id
           user == prem_call[1].user
           lapsed == prem_call[1].lapsed
       IN  /\ users' = IF lapsed THEN update_user_tier(users, user_id, FREE, 0)
                        ELSE users
           /\ ui' = [user_id |-> user_id, user |-> user,
                     is_premium |-> user # NULL /\ user[1].tier # FREE /\ ~lapsed,
                     at |-> LocalNow]
    /\ prem_call' = NULL
    /\ UNCHANGED <<chats, ads, ad_logs, ad_queue, running, sched_pc, rows, pc,
                   cur, is_prem, err, now, tz, ADSTERRA_LINK, lock, n_enq,
                   next_step>>

\* activate_premium, line 1606
activate_premium(user_id, days) ==
    /\ users' = update_user_tier(users, user_id, PREMIUM, days)
    /\ UNCHANGED <<chats, ads, ad_logs, ad_queue, running, sched_pc, rows, pc,
                   cur, is_prem, err, now, tz, ADSTERRA_LINK, lock, n_enq, ui,
                   next_step, prem_call>>

\* deactivate_premium, line 1640
deactivate_premium(user_id) ==
    /\ users' = update_user_tier(users, user_id, FREE, 0)
    /\ UNCHANGED <<chats, ads, ad_logs, ad_queue, running, sched_pc, rows, pc,
                   cur, is_prem, err, now, tz, ADSTERRA_LINK, lock, n_enq, ui,
                   next_step, prem_call>>

\* the clock advances
Tick ==
    /\ now < MaxTime
    /\ now' = now + 1
    /\ UNCHANGED <<users, chats, ads, ad_logs, ad_queue, running, sched_pc,
                   rows, pc, cur, is_prem, err, tz, ADSTERRA_LINK, lock,
                   n_enq, ui, next_step, prem_call>>

(***************************************************************************)
(* Specifications                                                          *)
(***************************************************************************)
NoUser == [present |-> FALSE, tier |-> FREE, premium_until |-> NULL]

\* the rows an account can hold when the engine starts: free, premium
\* without end (update_user_tier with days = 0), premium for one day
AccountRows ==
    {[present |-> TRUE, tier |-> FREE, premium_until |-> NULL],
     [present |-> TRUE, tier |-> PREMIUM, premium_until |-> NULL],
     [present |-> TRUE, tier |-> PREMIUM, premium_until |-> <<DayUnits>>]}

\* AdEngine.__init__ (lines 337-342) and start
InitEngine ==
    /\ ad_queue = <<>>
    /\ running = TRUE
    /\ sched_pc = "loop"
    /\ rows = <<>>
    /\ pc = [w \in Workers |-> "idle"]
    /\ cur = [w \in Workers |-> NoPosting]
    /\ is_prem = [w \in Workers |-> FALSE]
    /\ now = 0
    /\ tz \in TzOffsets
    /\ ADSTERRA_LINK \in BOOLEAN
    /\ lock = {}
    /\ n_enq = 0
    /\ ui = [user_id |-> 0, user |-> NULL, is_premium |-> FALSE, at |-> 0]
    /\ err = [w \in Workers |-> NoError]
    /\ next_step = NULL
    /\ prem_call = NULL

\* the ads chat 1 can hold when the engine starts: one, or two of different
\* intervals
StoredAds ==
    {<<[chat_id |-> 1, interval |-> 1, is_active |-> TRUE]>>,
     <<[chat_id |-> 1, interval |-> 1, is_active |-> TRUE],
       [chat_id |-> 1, interval |-> 2, is_active |-> TRUE]>>}

\* the engine starts over a store that holds one account, its chat 1 with its
\* ads, and no delivery yet
Init ==
    /\ InitEngine
    /\ \E row \in AccountRows : users = [u \in UserIds |-> IF u = 1 THEN row ELSE NoUser]
    /\ chats = [c \in ChatIds |-> [user_id |-> 1, is_active |-> TRUE]]
    /\ ads \in StoredAds
    /\ ad_logs = <<>>

Scheduler ==
    \/ SchedulerQuery
    \/ SchedulerRow
    \/ SchedulerSleep
    \/ SchedulerWake

Worker(w) ==
    \/ WorkerDequeue(w)
    \/ PostBegin(w)
    \/ \E o \in SendOutcomes : Send(w, o)
    \/ PostSent(w)
    \/ PostKicked(w)
    \/ PostFailed(w)
    \/ WorkerExcept(w)
    \/ SponsorWake(w)
    \/ _post_developer_ad(w)
    \/ \E o \in SendOutcomes : SponsorRaised(w, o)
    \/ SponsorExcept(w)

\* the engine with the SELECT and the loop of lines 378-412 run on a
\* connection of the store
Next ==
    \/ Scheduler
    \/ \E w \in Workers : Worker(w)
    \/ Tick

Spec == Init /\ [][Next]_vars

\* the engine as the source has it: every scan ends at line 374
NextAsWritten ==
    \/ _check_and_queue_ads
    \/ SchedulerExcept
    \/ \E w \in Workers : WorkerDequeue(w)
    \/ \E c \in ChatIds : request_ad_content(c)
    \/ \E text \in MessageTexts : process_ad_content(text)
    \/ \E text \in MessageTexts : process_ad_interval(text)
    \/ \E u \in UserIds, d \in PremiumDays : activate_premium(u, d)
    \/ Tick

SpecAsWritten == Init /\ [][NextAsWritten]_vars

\* the engine of Spec with scans that can also end in an error of the store
NextFaulty ==
    \/ Next
    \/ _check_and_queue_ads
    \/ SchedulerExcept

SpecFaulty == Init /\ [][NextFaulty]_vars

\* the handlers that write linked_chats and ad_messages, over a store whose
\* account holds two linked chats and no ad yet; local time is UTC
InitStore ==
    /\ InitEngine
    /\ tz = 0
    /\ ~ADSTERRA_LINK
    /\ \E row \in AccountRows : users = [u \in UserIds |-> IF u = 1 THEN row ELSE NoUser]
    /\ chats = [c \in ChatIds |-> [user_id |-> 1, is_active |-> TRUE]]
    /\ ads = <<>>
    /\ ad_logs = <<>>

NextStore ==
    \/ \E c \in ChatIds, u \in UserIds : setup_command(c, u)
    \/ \E c \in ChatIds : remove_chat(c)
    \/ \E c \in ChatIds : request_ad_content(c)
    \/ \E text \in MessageTexts : process_ad_content(text)
    \/ \E text \in MessageTexts : process_ad_interval(text)
    \/ \E a \in 1..MaxAds : delete_ad(a)
    \/ \E c \in ChatIds, o \in SendOutcomes : cleanup_inactive_chats(c, o)

SpecStore == InitStore /\ [][NextStore]_vars

\* the tier gate taken in its two steps, against the grants of the admin
InitGrant ==
    /\ InitEngine
    /\ \E row \in AccountRows : users = [u \in UserIds |-> IF u = 1 THEN row ELSE NoUser]
    /\ chats = [c \in ChatIds |-> [user_id |-> 1, is_active |-> TRUE]]
    /\ ads = <<>>
    /\ ad_logs = <<>>

NextGrant ==
    \/ \E u \in UserIds : is_premium_get_user(u)
    \/ is_premium_return
    \/ \E u \in UserIds, d \in PremiumDays : activate_premium(u, d)
    \/ Tick

SpecGrant == InitGrant /\ [][NextGrant]_vars

\* the engine left to run without end over two chats with one ad each, for
\* a free account, with no sponsor link and local time UTC
InitFair ==
    /\ InitEngine
    /\ tz = 0
    /\ ~ADSTERRA_LINK
    /\ users = [u \in UserIds |->
                  IF u = 1 THEN [present |-> TRUE, tier |-> FREE, premium_until |-> NULL]
                  ELSE NoUser]
    /\ chats = [c \in ChatIds |-> [user_id |-> 1, is_active |-> TRUE]]
    /\ ads = <<[chat_id |-> 1, interval |-> 1, is_active |-> TRUE],
               [chat_id |-> 2, interval |-> 1, is_active |-> TRUE]>>
    /\ ad_logs = <<>>

SchedulerFair ==
    \/ SchedulerQuery
    \/ SchedulerRowCapped
    \/ SchedulerSleep
    \/ SchedulerWake

\* a worker while the network is down: every send ends in an exception that
\* is no ApiTelegramException and reaches the except of line 435
WorkerFair(w) ==
    \/ WorkerDequeue(w)
    \/ PostBegin(w)
    \/ Send(w, "net")
    \/ WorkerExcept(w)

NextFair ==
    \/ SchedulerFair
    \/ \E w \in Workers : WorkerFair(w)

\* every thread that can take a step takes one in the end
FairThreads ==
    /\ WF_vars(SchedulerFair)
    /\ \A w \in Workers : WF_vars(WorkerFair(w))

SpecFair == InitFair /\ [][NextFair]_vars /\ FairThreads

\* an empty store with no chat linked, no sponsor link and local time UTC
InitLimit ==
    /\ InitEngine
    /\ tz = 0
    /\ ~ADSTERRA_LINK
    /\ users = [u \in UserIds |-> NoUser]
    /\ chats = [c \in ChatIds |-> [user_id |-> 1, is_active |-> FALSE]]
    /\ ads = <<>>
    /\ ad_logs = <<>>

\* the handlers that link and unlink chats beside those that write the tier
NextLimit ==
    \/ \E u \in UserIds : start_command(u)
    \/ \E c \in ChatIds, u \in UserIds : setup_command(c, u)
    \/ \E c \in ChatIds, u \in UserIds \cup {0} : handle_channel_add(c, u)
    \/ \E c \in ChatIds : remove_chat(c)
    \/ \E u \in UserIds, d \in PremiumDays : activate_premium(u, d)
    \/ \E u \in UserIds : deactivate_premium(u)
    \/ Tick

SpecLimit == InitLimit /\ [][NextLimit]_vars

\* the tier gate and the handlers that write the tier
InitTier ==
    /\ InitEngine
    /\ users = [u \in UserIds |-> NoUser]
    /\ chats = [c \in ChatIds |-> [user_id |-> 1, is_active |-> TRUE]]
    /\ ads = <<>>
    /\ ad_logs = <<>>

NextTier ==
    \/ \E u \in UserIds : start_command(u)
    \/ \E u \in UserIds : main_menu(u)
    \/ \E u \in UserIds, d \in PremiumDays : activate_premium(u, d)
    \/ \E u \in UserIds : deactivate_premium(u)
    \/ Tick

SpecTier == InitTier /\ [][NextTier]_vars

\* _post_ad and _post_developer_ad, entered after the lock is released
Delivery(w) ==
    \/ PostBegin(w)
    \/ \E o \in SendOutcomes : Send(w, o)
    \/ PostSent(w)
    \/ PostKicked(w)
    \/ PostFailed(w)
    \/ WorkerExcept(w)
    \/ SponsorWake(w)
    \/ _post_developer_ad(w)
    \/ \E o \in SendOutcomes : SponsorRaised(w, o)
    \/ SponsorExcept(w)

\* the engine with its queue operations taken step by step
NextLock ==
    \/ SchedulerQuery
    \/ RowSkip
    \/ RowAcquire
    \/ RowCreate
    \/ RowAppend
    \/ RowRelease
    \/ SchedulerSleep
    \/ SchedulerWake
    \/ \E w \in Workers : WorkerAcquire(w)
    \/ \E w \in Workers : WorkerPop(w)
    \/ \E w \in Workers : WorkerRelease(w)
    \/ \E w \in Workers : Delivery(w)
    \/ Tick

SpecLock == Init /\ [][NextLock]_vars

\* the store the engine is stopped over: a free account, local time UTC
InitStop ==
    /\ Init
    /\ tz = 0
    /\ users[1].tier = FREE

\* the engine of Spec, stopped at any moment
NextStop ==
    \/ Scheduler
    \/ SchedulerExit
    \/ \E w \in Workers : Worker(w)
    \/ \E w \in Workers : WorkerExit(w)
    \/ stop
    \/ process_exit
    \/ Tick

\* every thread that can take a step takes one in the end (the sends and the
\* sleeps return), and the main thread, once stop has returned, ends
FairStop ==
    /\ WF_vars(Scheduler \/ SchedulerExit)
    /\ \A w \in Workers : WF_vars(Worker(w) \/ WorkerExit(w))
    /\ WF_vars(process_exit)

SpecStop == InitStop /\ [][NextStop]_vars /\ FairStop

\* the engine of Spec beside the handler that soft-deletes an ad
NextDelete ==
    \/ Scheduler
    \/ \E w \in Workers : Worker(w)
    \/ \E ad_id \in 1..MaxAds : delete_ad(ad_id)
    \/ Tick

SpecDelete == InitStop /\ [][NextDelete]_vars

(***************************************************************************)
(* Vocabulary of the properties                                            *)
(***************************************************************************)
\* worker w is inside _post_ad between the start of the primary send and the
\* end of the sponsor follow-up
InFlight(w) ==
    pc[w] \in {"sending", "sent", "kicked", "failed",
               "sponsor_wait", "sponsor_send", "sponsor_except"}

\* the delivery records of an ad, as positions of ad_logs
RecordsOf(ad_id) == {i \in 1..Len(ad_logs) : ad_logs[i].ad_id = ad_id}

SuccessesOf(ad_id) == {i \in RecordsOf(ad_id) : ad_logs[i].status = "success"}

\* time of the last successful post of an ad, NULL when it has none
LastSuccess(ad_id) ==
    IF SuccessesOf(ad_id) = {} THEN NULL
    ELSE LET times == {ad_logs[i].posted_at : i \in SuccessesOf(ad_id)}
         IN  <<CHOOSE t \in times : \A u \in times : u <= t>>

\* the latest record of an ad is a failure
LastRecordFailed(ad_id) ==
    /\ RecordsOf(ad_id) # {}
    /\ LET last == CHOOSE i \in RecordsOf(ad_id) : \A j \in RecordsOf(ad_id) : j <= i
       IN  ad_logs[last].status = "failed"

\* the ad has a posting waiting in queue q
QueuedIn(q, ad_id) ==
    \E i \in 1..Len(q) : \E k \in 1..Len(q[i].ads) : q[i].ads[k].ad_id = ad_id

\* this step is one pass of the detector's for loop over the row Head(rows)
RowStep == sched_pc = "scan" /\ rows # <<>> /\ rows' = Tail(rows)

\* this step puts one posting in the queue
EnqueueStep == n_enq' = n_enq + 1

\* the SELECT that produced the row saw every delivery record the ad has now
FreshRow(row) ==
    \/ RecordsOf(row.id) = {}
    \/ /\ row.last_posted # NULL
       /\ \A i \in RecordsOf(row.id) : ad_logs[i].posted_at <= row.last_posted[1]

\* the account's row is PREMIUM with an expiry in the past
Lapsed(row) ==
    /\ row.present
    /\ row.tier = PREMIUM
    /\ row.premium_until # NULL
    /\ row.premium_until[1] < LocalNow

RECURSIVE QueuedFrom(_, _)
\* the number of postings waiting in queue q from entry n on
QueuedFrom(q, n) ==
    IF n > Len(q) THEN 0 ELSE Len(q[n].ads) + QueuedFrom(q, n + 1)

\* the number of postings waiting in queue q
QueuedCount(q) == QueuedFrom(q, 1)

\* this step is worker w taking a posting from the queue
DequeueStep(w) == pc[w] = "idle" /\ pc'[w] = "post"

(***************************************************************************)
(* C1: at every moment at most one delivery is executing for a given       *)
(* destination: two workers are never inside _post_ad for the same chat_id *)
(* at the same time.                                                       *)
(***************************************************************************)
C1_OneDeliveryPerChat ==
    \A w1, w2 \in Workers :
        (w1 # w2 /\ InFlight(w1) /\ InFlight(w2)) => cur[w1].chat_id # cur[w2].chat_id

(***************************************************************************)
(* C2: an ad with interval i whose last successful post was recorded at t0 *)
(* is enqueued by no scan before t0 + i, and exactly once by a scan at or  *)
(* after t0 + i (a scan being one that read the record of t0).             *)
(***************************************************************************)
C2_EnqueuedAtDueTime ==
    [][RowStep =>
        LET row == Head(rows)
            t0 == LastSuccess(row.id)
        IN  (t0 # NULL /\ FreshRow(row)) =>
                (EnqueueStep <=> now >= t0[1] + row.interval)]_vars

(***************************************************************************)
(* C3: an active ad on an active destination with no successful delivery   *)
(* yet is found due and enqueued by the next detector scan: when a pass of *)
(* the detector loop is over (it reaches its sleep, or its except clause), *)
(* every such ad is in the queue or in a worker's hands.                   *)
(***************************************************************************)
C3_NewAdEnqueued ==
    [][((sched_pc = "loop" /\ sched_pc' = "except")
         \/ (sched_pc = "scan" /\ sched_pc' = "sleep")) =>
        \A a \in 1..Len(ads) :
            (QueryWhere(a) /\ LastSuccess(a) = NULL) =>
                (QueuedIn(ad_queue', a) \/ \E w \in Workers : cur'[w].ad_id = a)]_vars

(***************************************************************************)
(* C4: when a primary send fails with error 403 the destination and every  *)
(* ad of it become inactive, they stay inactive, and every later detector   *)
(* scan selects no ad of an inactive destination and no inactive ad.       *)
(***************************************************************************)
C4_KickedChatExcluded ==
    [][/\ \A w \in Workers :
            (pc[w] = "kicked" /\ pc'[w] # "kicked") =>
                /\ ~chats'[cur[w].chat_id].is_active
                /\ \A a \in 1..Len(ads') :
                      ads'[a].chat_id = cur[w].chat_id => ~ads'[a].is_active
       /\ \A c \in ChatIds : ~chats[c].is_active => ~chats'[c].is_active
       /\ \A a \in 1..Len(ads) : ~ads[a].is_active => ~ads'[a].is_active
       /\ (sched_pc = "loop" /\ sched_pc' = "scan") =>
            \A k \in 1..Len(rows') :
                /\ chats[rows'[k].chat_id].is_active
                /\ ads[rows'[k].id].is_active]_vars

\* a destination with two ads has been deactivated and a scan has selected
\* no ad of it
C4_Witness ==
    \E c \in ChatIds :
        /\ ~chats[c].is_active
        /\ Cardinality({a \in 1..Len(ads) : ads[a].chat_id = c}) >= 2
        /\ \A a \in 1..Len(ads) : ads[a].chat_id = c => ~ads[a].is_active
        /\ sched_pc = "sleep"
        /\ ~\E a \in 1..Len(ads) : ads[a].chat_id = c /\ QueuedIn(ad_queue, a)

(***************************************************************************)
(* C5: a transient send failure leaves the destination and the ad active,  *)
(* and its failure record is not counted as a last post time: a scan that  *)
(* follows the failure enqueues the ad if it is due by its last successful *)
(* post (or has none).                                                     *)
(***************************************************************************)
C5_TransientFailureRetried ==
    [][/\ \A w \in Workers :
            (pc[w] = "failed" /\ pc'[w] # "failed") => (chats' = chats /\ ads' = ads)
       /\ RowStep =>
            LET row == Head(rows)
                t0 == LastSuccess(row.id)
            IN  (/\ LastRecordFailed(row.id)
                 /\ FreshRow(row)
                 /\ (t0 = NULL \/ now >= t0[1] + row.interval)) => EnqueueStep]_vars

(***************************************************************************)
(* C6: entitlement is resolved when a posting is delivered, not when it is *)
(* enqueued: a posting enqueued while its owner was entitled and delivered *)
(* after the premium has lapsed is followed by the sponsor message.        *)
(* C6_SponsorAfterExpiry is the claim as stated; C6_SponsorAfterExpiryIfLink *)
(* adds that a sponsor link is configured (line 470).                      *)
(***************************************************************************)
C6_SponsorAfterExpiry ==
    [][\A w \in Workers :
        /\ (pc[w] = "post" /\ pc'[w] = "sending" /\ Lapsed(users[cur[w].user_id])) =>
                ~is_prem'[w]
        /\ (pc[w] = "sent" /\ pc'[w] # "sent" /\ cur[w].entitled /\ ~is_prem[w]) =>
                pc'[w] = "sponsor_wait"]_vars

C6_SponsorAfterExpiryIfLink ==
    [][\A w \in Workers :
        /\ (pc[w] = "post" /\ pc'[w] = "sending" /\ Lapsed(users[cur[w].user_id])) =>
                ~is_prem'[w]
        /\ (pc[w] = "sent" /\ pc'[w] # "sent" /\ cur[w].entitled /\ ~is_prem[w]
                /\ ADSTERRA_LINK) =>
                pc'[w] = "sponsor_wait"]_vars

\* a posting enqueued for an entitled owner is waiting for its sponsor message
C6_Witness ==
    \E w \in Workers :
        /\ pc[w] = "sponsor_send"
        /\ cur[w].entitled
        /\ ~is_prem[w]
        /\ users[cur[w].user_id].tier = FREE

(***************************************************************************)
(* C7: is_premium returns false and changes nothing for a missing or FREE  *)
(* account; for PREMIUM with an expiry in the past it sets FREE, clears the *)
(* expiry and returns false; otherwise it returns true and changes nothing. *)
(* After the call the account is never PREMIUM with an expiry before the   *)
(* time of the call.                                                       *)
(***************************************************************************)
C7_IsPremium ==
    [][ui' # ui =>
        LET u == ui'.user_id
            row == users[u]
        IN  /\ (~row.present \/ row.tier = FREE) =>
                    (~ui'.is_premium /\ users' = users)
            /\ Lapsed(row) =>
                    /\ ~ui'.is_premium
                    /\ users' = [users EXCEPT ![u].tier = FREE,
                                              ![u].premium_until = NULL]
            /\ (row.present /\ row.tier = PREMIUM /\ ~Lapsed(row)) =>
                    (ui'.is_premium /\ users' = users)
            /\ ~(/\ users'[u].present
                 /\ users'[u].tier = PREMIUM
                 /\ users'[u].premium_until # NULL
                 /\ users'[u].premium_until[1] < LocalNow)]_vars

\* is_premium has just read a PREMIUM row, answered false and left it FREE
C7_Witness ==
    /\ ui.user_id \in UserIds
    /\ ui.user # NULL
    /\ ui.user[1].tier = PREMIUM
    /\ ~ui.is_premium
    /\ ui.at = LocalNow
    /\ users[ui.user_id].tier = FREE
    /\ users[ui.user_id].premium_until = NULL

(***************************************************************************)
(* C8: a primary send that fails with error 403 appends exactly one        *)
(* FAILURE record for that destination and ad, besides deactivating the    *)
(* destination.                                                            *)
(***************************************************************************)
C8_KickedLogsFailure ==
    [][\A w \in Workers :
        (pc[w] = "kicked" /\ pc'[w] # "kicked") =>
            /\ ~chats'[cur[w].chat_id].is_active
            /\ Len(ad_logs') = Len(ad_logs) + 1
            /\ ad_logs'[Len(ad_logs')].chat_id = cur[w].chat_id
            /\ ad_logs'[Len(ad_logs')].ad_id = cur[w].ad_id
            /\ ad_logs'[Len(ad_logs')].status = "failed"]_vars

(***************************************************************************)
(* C9: every primary send that fails for another reason than error 403 (an *)
(* ApiTelegramException with another code, or any other exception raised   *)
(* by the send) appends exactly one FAILURE record and leaves the          *)
(* destination and its ads active.                                         *)
(***************************************************************************)
C9_OtherFailureLogged ==
    [][\A w \in Workers :
        (pc[w] \in {"failed", "except"} /\ pc'[w] # pc[w]) =>
            /\ chats' = chats
            /\ ads' = ads
            /\ Len(ad_logs') = Len(ad_logs) + 1
            /\ ad_logs'[Len(ad_logs')].chat_id = cur[w].chat_id
            /\ ad_logs'[Len(ad_logs')].ad_id = cur[w].ad_id
            /\ ad_logs'[Len(ad_logs')].status = "failed"]_vars

(***************************************************************************)
(* C10: a failure of the sponsor send, of any kind, changes nothing in the *)
(* store: the SUCCESS record of the primary delivery stays, no record is   *)
(* added, the destination and its ads stay as they are.                    *)
(***************************************************************************)
C10_SponsorFailureSwallowed ==
    [][\A w \in Workers :
        ((pc[w] = "sponsor_send" /\ pc'[w] = "sponsor_except")
            \/ (pc[w] = "sponsor_except" /\ pc'[w] # "sponsor_except")) =>
            /\ UNCHANGED store
            /\ \E i \in 1..Len(ad_logs') :
                  /\ ad_logs'[i].chat_id = cur[w].chat_id
                  /\ ad_logs'[i].ad_id = cur[w].ad_id
                  /\ ad_logs'[i].status = "success"]_vars

\* a sponsor send has failed and its worker is in the except clause
C10_Witness ==
    \E w \in Workers :
        /\ pc[w] = "sponsor_except"
        /\ chats[cur[w].chat_id].is_active
        /\ \E i \in 1..Len(ad_logs) :
              ad_logs[i].ad_id = cur[w].ad_id /\ ad_logs[i].status = "success"

(***************************************************************************)
(* C11: no ad is delivered in duplicate: two successful deliveries of the  *)
(* same ad are never less than the ad's interval apart.                    *)
(***************************************************************************)
C11_NoDuplicateDelivery ==
    \A a \in 1..Len(ads) :
        \A i, j \in SuccessesOf(a) :
            i < j => ad_logs[j].posted_at - ad_logs[i].posted_at >= ads[a].interval

(***************************************************************************)
(* C12: once a destination is inactive no send to it is started, postings  *)
(* that were already in the queue included: a worker enters the send call  *)
(* of _post_ad only for an active destination.                             *)
(***************************************************************************)
C12_NoSendToInactiveChat ==
    [][\A w \in Workers :
        (pc[w] = "post" /\ pc'[w] = "sending") => chats[cur[w].chat_id].is_active]_vars

(***************************************************************************)
(* C13: between the primary send of a delivery and its sponsor message no  *)
(* other ad is sent to the destination: while a worker waits to send the   *)
(* sponsor message to a chat, no primary send of another worker to that    *)
(* chat returns.                                                           *)
(***************************************************************************)
C13_SponsorFollowsItsAd ==
    [][\A w1, w2 \in Workers :
        (/\ w1 # w2
         /\ pc[w1] \in {"sponsor_wait", "sponsor_send"}
         /\ cur[w2].chat_id = cur[w1].chat_id
         /\ pc[w2] = "sending") => pc'[w2] # "sent"]_vars

(***************************************************************************)
(* C14: within one destination postings leave the queue in the order they  *)
(* were enqueued: the detector appends at the tail of the destination's    *)
(* sequence and a worker takes its head.                                   *)
(***************************************************************************)
C14_FifoPerChat ==
    [][/\ (RowStep /\ QueuedCount(ad_queue') # QueuedCount(ad_queue)) =>
            LET c == Head(rows).chat_id
            IN  /\ Len(PendingOf(ad_queue', c)) = Len(PendingOf(ad_queue, c)) + 1
                /\ SubSeq(PendingOf(ad_queue', c), 1, Len(PendingOf(ad_queue, c)))
                        = PendingOf(ad_queue, c)
                /\ PendingOf(ad_queue', c)[Len(PendingOf(ad_queue', c))].ad_id
                        = Head(rows).id
       /\ \A w \in Workers :
            DequeueStep(w) =>
                LET c == cur'[w].chat_id
                IN  /\ PendingOf(ad_queue, c) # <<>>
                    /\ cur'[w].ad_id = Head(PendingOf(ad_queue, c)).ad_id
                    /\ PendingOf(ad_queue', c) = Tail(PendingOf(ad_queue, c))]_vars

\* of two postings of chat 1 the one enqueued first is in a worker's hands,
\* the other still waits
C14_Witness ==
    \E w \in Workers :
        /\ pc[w] = "post"
        /\ cur[w].chat_id = 1
        /\ cur[w].ad_id = 1
        /\ PendingOf(ad_queue, 1) # <<>>
        /\ Head(PendingOf(ad_queue, 1)).ad_id = 2

(***************************************************************************)
(* C15: one detector scan enqueues at most one posting per ad, and only    *)
(* for ads that were active on an active destination when the scan read    *)
(* them: the rows of a scan are such ads, each once; a pass of the loop    *)
(* adds at most one posting, of the row's ad; nothing else adds a posting. *)
(***************************************************************************)
C15_OnePostingPerAdPerScan ==
    [][/\ (sched_pc = "loop" /\ sched_pc' = "scan") =>
            /\ \A k \in 1..Len(rows') :
                  /\ ads[rows'[k].id].is_active
                  /\ chats[ads[rows'[k].id].chat_id].is_active
                  /\ rows'[k].chat_id = ads[rows'[k].id].chat_id
            /\ \A j, k \in 1..Len(rows') : j # k => rows'[j].id # rows'[k].id
       /\ RowStep =>
            /\ QueuedCount(ad_queue') - QueuedCount(ad_queue) \in {0, 1}
            /\ QueuedCount(ad_queue') # QueuedCount(ad_queue) =>
                  LET new == PendingOf(ad_queue', Head(rows).chat_id)
                  IN  new # <<>> /\ new[Len(new)].ad_id = Head(rows).id
            /\ \A k \in 1..Len(rows') : rows'[k].id # Head(rows).id
       /\ ~RowStep => QueuedCount(ad_queue') <= QueuedCount(ad_queue)]_vars

\* one scan over two due ads is over and the queue holds one posting of each
C15_Witness ==
    /\ sched_pc = "sleep"
    /\ Len(ads) = 2
    /\ QueuedCount(ad_queue) = 2
    /\ QueuedIn(ad_queue, 1)
    /\ QueuedIn(ad_queue, 2)

(***************************************************************************)
(* C17: a detector scan changes nothing but the dispatch queue: every step *)
(* of the scheduler thread leaves users, chats, ads and ad_logs unchanged. *)
(***************************************************************************)
C17_ScanWritesNoStore ==
    [][(sched_pc' # sched_pc \/ rows' # rows) => UNCHANGED store]_vars

\* a scan that enqueued a posting of an account whose premium has lapsed is
\* over
C17_Witness ==
    /\ sched_pc = "sleep"
    /\ ad_queue # <<>>
    /\ Lapsed(users[1])

C16_ScanErrorThenSleep ==
    [][(sched_pc = "except" /\ sched_pc' # "except") => sched_pc' = "sleep"]_vars

\* thread t is inside a with self.lock block
InQueueOp(t) ==
    IF t = SchedulerThread THEN sched_pc \in {"locked", "append", "unlock"}
    ELSE pc[t] \in {"locked", "unlock"}

(***************************************************************************)
(* C19: every read and every mutation of the queue happens while the       *)
(* engine lock is held: a step that changes ad_queue is taken by the one   *)
(* thread that holds the lock, a thread inside a queue operation holds the *)
(* lock, and no two threads are inside a queue operation at once.          *)
(***************************************************************************)
C19_QueueUnderLock ==
    [][/\ ad_queue' # ad_queue =>
            \E t \in Threads :
                /\ lock = {t}
                /\ InQueueOp(t)
                /\ IF t = SchedulerThread THEN sched_pc' # sched_pc ELSE pc'[t] # pc[t]
       /\ \A t \in Threads : InQueueOp(t)' => t \in lock'
       /\ Cardinality({t \in Threads : InQueueOp(t)'}) <= 1]_vars

\* a worker is inside its queue operation while the scheduler, with a due
\* row in hand, waits for the lock
C19_Witness ==
    \E w \in Workers :
        /\ pc[w] = "locked"
        /\ lock = {w}
        /\ ad_queue # <<>>
        /\ sched_pc = "scan"
        /\ rows # <<>>
        /\ IsDue(Head(rows))
        /\ n_enq < MaxPostings

\* the detector loop and every worker loop have ended
Ended ==
    /\ sched_pc \in {"done", "dead"}
    /\ \A w \in Workers : pc[w] \in {"done", "dead"}

\* worker w is inside _post_ad
Delivering(w) ==
    pc[w] \in {"post", "sending", "sent", "kicked", "failed", "except",
               "sponsor_wait", "sponsor_send", "sponsor_except"}

\* what stop and the loops do: a loop that tests self.running after stop
\* returns, and starts no scan and takes no posting; a loop that has returned
\* stays so; stop itself touches no thread and no record
StopObserved ==
    /\ (sched_pc = "loop" /\ ~running /\ sched_pc' # sched_pc) =>
            sched_pc' \in {"done", "dead"}
    /\ \A w \in Workers :
            (pc[w] = "idle" /\ ~running /\ pc'[w] # pc[w]) => pc'[w] \in {"done", "dead"}
    /\ sched_pc = "done" => sched_pc' = "done"
    /\ \A w \in Workers : pc[w] = "done" => pc'[w] = "done"
    /\ (running /\ ~running') => (pc' = pc /\ cur' = cur /\ UNCHANGED store)

(***************************************************************************)
(* C20: after stop the detector loop and every worker loop eventually end; *)
(* a loop that has observed the stop starts no scan and takes no posting;  *)
(* a delivery in progress runs to its end instead of being interrupted.    *)
(* C20_StopRunsDeliveriesOut is the claim as stated.  C20_StopOrAbandon    *)
(* lets a delivery in progress be abandoned when the process exits: then   *)
(* nothing is written for it, so a record is written whole or not at all.  *)
(***************************************************************************)
C20_StopRunsDeliveriesOut ==
    /\ [][/\ StopObserved
          /\ \A w \in Workers : Delivering(w) => pc'[w] # "dead"]_vars
    /\ (~running ~> Ended)

C20_StopOrAbandon ==
    /\ [][/\ StopObserved
          /\ \A w \in Workers :
                (Delivering(w) /\ pc'[w] # pc[w]) =>
                    \/ pc'[w] \in {"idle", "sending", "sent", "kicked", "failed", "except",
                                   "sponsor_wait", "sponsor_send", "sponsor_except"}
                    \/ (pc'[w] = "dead" /\ UNCHANGED store)]_vars
    /\ (~running ~> Ended)

\* after stop the detector has returned and a delivery is still going on
C20_Witness ==
    /\ ~running
    /\ sched_pc = "done"
    /\ \E w \in Workers : pc[w] = "sent"
    /\ \E w \in Workers : pc[w] = "done"

\* the threads of the engine that have not ended
LiveWorkers == {w \in Workers : pc[w] \notin {"done", "dead"}}

(***************************************************************************)
(* C21: no failure ends a thread of the engine: a worker that met a        *)
(* permanent or transient delivery failure, an exception of another kind   *)
(* or a sponsor send failure goes on with the next pass of its loop, the   *)
(* detector goes on with its loop after a scan error, and while the engine *)
(* is running all 3 workers and the detector are alive.                    *)
(***************************************************************************)
C21_FailuresEndNoThread ==
    [][/\ \A w \in Workers :
            (pc[w] \in {"kicked", "failed", "except", "sponsor_except"}
                /\ pc'[w] # pc[w]) => pc'[w] = "idle"
       /\ (sched_pc = "except" /\ sched_pc' # sched_pc) => sched_pc' = "loop"
       /\ running' => /\ Cardinality(LiveWorkers') = NumWorkers
                      /\ sched_pc' \notin {"done", "dead"}]_vars

\* a scan has just failed, one delivery has ended in a logged failure and
\* another is in the handler of the worker loop
C21_Witness ==
    /\ sched_pc = "except"
    /\ \E w \in Workers : pc[w] = "except"
    /\ \E i \in 1..Len(ad_logs) : ad_logs[i].status = "failed"

\* the SUCCESS records of the log
Successes(logs) == {i \in 1..Len(logs) : logs[i].status = "success"}

(***************************************************************************)
(* C22: a primary send that returned appends exactly one SUCCESS record,   *)
(* for its destination and ad, at the end of the log, after the send and   *)
(* before the sponsor message; no other step appends a SUCCESS record, so  *)
(* a send that failed leaves none.                                         *)
(***************************************************************************)
C22_SuccessRecordedOnce ==
    [][/\ \A w \in Workers :
            (pc[w] = "sent" /\ pc'[w] # "sent") =>
                /\ Len(ad_logs') = Len(ad_logs) + 1
                /\ SubSeq(ad_logs', 1, Len(ad_logs)) = ad_logs
                /\ ad_logs'[Len(ad_logs')].chat_id = cur[w].chat_id
                /\ ad_logs'[Len(ad_logs')].ad_id = cur[w].ad_id
                /\ ad_logs'[Len(ad_logs')].status = "success"
                /\ pc'[w] \in {"sponsor_wait", "idle"}
       /\ Successes(ad_logs') # Successes(ad_logs) =>
                \E w \in Workers : pc[w] = "sent" /\ pc'[w] # "sent"
       /\ \A w \in Workers :
            (pc[w] \in {"sending", "kicked", "failed", "except"}
                /\ pc'[w] # pc[w]) => Successes(ad_logs') = Successes(ad_logs)]_vars

\* the one SUCCESS record of a delivery is the last of the log and its
\* sponsor message is still to be sent
C22_Witness ==
    \E w \in Workers :
        /\ pc[w] = "sponsor_wait"
        /\ ad_logs # <<>>
        /\ ad_logs[Len(ad_logs)].ad_id = cur[w].ad_id
        /\ ad_logs[Len(ad_logs)].status = "success"
        /\ Cardinality(SuccessesOf(cur[w].ad_id)) = 1

\* a worker begins the sponsor part of _post_ad only out of a primary send
\* that returned, for an account line 441 resolved as FREE; a delivery for an
\* entitled account and a send that failed end _post_ad without it
SponsorOnlyAfterFreeSuccess ==
    \A w \in Workers :
        /\ (pc'[w] = "sponsor_wait" /\ pc[w] # "sponsor_wait") =>
                pc[w] = "sent" /\ ~is_prem[w]
        /\ (pc'[w] = "sponsor_send" /\ pc[w] # "sponsor_send") =>
                pc[w] = "sponsor_wait" /\ cur'[w] = cur[w]
        /\ (pc[w] = "sent" /\ pc'[w] # "sent" /\ is_prem[w]) => pc'[w] = "idle"
        /\ (pc[w] \in {"kicked", "failed", "except"} /\ pc'[w] # pc[w]) =>
                pc'[w] = "idle"

(***************************************************************************)
(* C23: a sponsor message goes to a destination only directly after a      *)
(* successful primary delivery to it for an account resolved as FREE; a    *)
(* delivery for an entitled account and a failed send are never followed   *)
(* by one, and every successful delivery for a FREE account is followed by *)
(* one.  C23_SponsorIffFreeSuccess is the claim as stated;                 *)
(* C23_SponsorIffFreeSuccessAndLink asks for the sponsor message only when *)
(* ADSTERRA_LINK is set, and for none when it is not.                      *)
(***************************************************************************)
C23_SponsorIffFreeSuccess ==
    [][/\ SponsorOnlyAfterFreeSuccess
       /\ \A w \in Workers :
            (pc[w] = "sent" /\ pc'[w] # "sent" /\ ~is_prem[w]) =>
                pc'[w] = "sponsor_wait"]_vars

C23_SponsorIffFreeSuccessAndLink ==
    [][/\ SponsorOnlyAfterFreeSuccess
       /\ \A w \in Workers :
            (pc[w] = "sent" /\ pc'[w] # "sent" /\ ~is_prem[w]) =>
                pc'[w] = IF ADSTERRA_LINK THEN "sponsor_wait" ELSE "idle"]_vars

\* the sponsor message of a delivery resolved as FREE is being sent while
\* another worker has ended a delivery that failed
C23_Witness ==
    \E w \in Workers :
        /\ pc[w] = "sponsor_send"
        /\ ~is_prem[w]
        /\ ADSTERRA_LINK
        /\ \E i \in 1..Len(ad_logs) : ad_logs[i].status = "failed"

(***************************************************************************)
(* C24: delivery records are append-only: every step leaves the records    *)
(* that exist where they are and as they are, and adds records at the end  *)
(* only.                                                                   *)
(***************************************************************************)
C24_RecordsAppendOnly ==
    [][/\ Len(ad_logs') >= Len(ad_logs)
       /\ SubSeq(ad_logs', 1, Len(ad_logs)) = ad_logs]_vars

\* a destination was deactivated after a delivery to it was recorded
C24_Witness ==
    \E i \in 1..Len(ad_logs) :
        /\ ad_logs[i].status = "success"
        /\ ~chats[ad_logs[i].chat_id].is_active

\* every ad of the store has an interval of MinInterval minutes or more
IntervalsAtLeastFloor(stored) ==
    \A a \in 1..Len(stored) : stored[a].interval * MinInterval >= MinInterval

(***************************************************************************)
(* C25: every stored ad has an interval of at least 5 minutes: the         *)
(* interval step of the ad creation flow stores an ad only when the        *)
(* message is an integer of 5 or more, and for every other message, short  *)
(* of /cancel, it stores nothing and stays registered to ask again.        *)
(***************************************************************************)
C25_FloorOrAskAgain ==
    [][/\ IntervalsAtLeastFloor(ads')
       /\ \A text \in MessageTexts \ {Cancel} :
            process_ad_interval(text) =>
                IF int(text).raised = NoError /\ int(text).value >= MinInterval
                THEN /\ Len(ads') = Len(ads) + 1
                     /\ ads'[Len(ads')].interval = Units(int(text).value)
                ELSE /\ ads' = ads
                     /\ next_step' = next_step]_vars

(***************************************************************************)
(* C26: deactivating a destination and downgrading an account are          *)
(* idempotent: in the store a worker's remove_linked_chat leaves, applying *)
(* it again changes nothing, and likewise for the lazy downgrade; a worker *)
(* that deactivates a destination another worker has deactivated leaves    *)
(* the store as it found it.                                               *)
(***************************************************************************)
C26_Idempotent ==
    [][\A w \in Workers :
        /\ \A c \in ChatIds :
            (pc[w] = "kicked" /\ pc'[w] # "kicked" /\ c = cur[w].chat_id) =>
                /\ remove_linked_chat_chats(c)' = chats'
                /\ remove_linked_chat_ads(c)' = ads'
                /\ (~chats[c].is_active => UNCHANGED store)
        /\ \A u \in UserIds :
            (pc[w] = "post" /\ pc'[w] # "post" /\ u = cur[w].user_id) =>
                /\ is_premium_users(u)' = users'
                /\ (users' # users => update_user_tier(users', u, FREE, 0) = users')
                /\ (users[u].tier = FREE => users' = users)]_vars

\* a worker is about to deactivate a destination that another worker has
\* deactivated, for an account another worker has downgraded
C26_Witness ==
    \E w \in Workers :
        /\ pc[w] = "kicked"
        /\ ~chats[cur[w].chat_id].is_active
        /\ cur[w].entitled
        /\ users[cur[w].user_id].tier = FREE

(***************************************************************************)
(* C27: a send rejected because the bot was removed from the destination   *)
(* (error_code 403) and a send rejected because the destination no longer  *)
(* exists (error_code 400) both leave the destination and its ads          *)
(* inactive.                                                               *)
(***************************************************************************)
C27_AccessRevokedDeactivates ==
    [][\A w \in Workers : \A c \in ChatIds :
        (pc[w] \in {"kicked", "failed"} /\ pc'[w] # pc[w]
            /\ err[w] \in {"403", "400"} /\ c = cur[w].chat_id) =>
                /\ ~chats'[c].is_active
                /\ \A a \in 1..Len(ads') : ads'[a].chat_id = c => ~ads'[a].is_active]_vars

\* the postings workers hold
Held(held) == {w \in Workers : held[w] # NoPosting}

(***************************************************************************)
(* C28: a posting leaves the queue into the hands of exactly one worker:   *)
(* each take removes one posting from the queue, nothing else removes one, *)
(* a worker keeps the posting it took until its delivery has ended, the    *)
(* postings queued and held never outnumber the postings enqueued, and at  *)
(* most 3 deliveries are in progress.                                      *)
(***************************************************************************)
C28_HandedOnce ==
    [][LET takers == {w \in Workers : cur[w] = NoPosting /\ cur'[w] # NoPosting}
       IN  /\ Cardinality(takers) <= 1
           /\ takers # {} => QueuedCount(ad_queue') = QueuedCount(ad_queue) - 1
           /\ takers = {} => QueuedCount(ad_queue') >= QueuedCount(ad_queue)
           /\ \A w \in Workers :
                cur[w] # NoPosting => cur'[w] \in {cur[w], NoPosting}
           /\ QueuedCount(ad_queue') + Cardinality(Held(cur')) <= n_enq'
           /\ Cardinality({w \in Workers : pc'[w] \notin {"idle", "done", "dead"}})
                <= NumWorkers]_vars

\* two workers deliver the two postings that were enqueued
C28_Witness ==
    \E w1, w2 \in Workers :
        /\ w1 # w2
        /\ pc[w1] = "sending" /\ pc[w2] = "sending"
        /\ cur[w1] # cur[w2]
        /\ ad_queue = <<>>
        /\ n_enq = 2

(***************************************************************************)
(* C29: a grant issued after is_premium has read the row of an expired     *)
(* PREMIUM account is not lost: when is_premium returns, the account is    *)
(* PREMIUM with the future expiry of the grant.                            *)
(***************************************************************************)
C29_GrantSurvives ==
    [][\A u \in UserIds :
        (/\ prem_call # NULL
         /\ prem_call' = NULL
         /\ prem_call[1].user_id = u
         /\ prem_call[1].lapsed
         /\ users[u] # prem_call[1].user[1]
         /\ users[u].tier = PREMIUM
         /\ users[u].premium_until # NULL
         /\ users[u].premium_until[1] > LocalNow) => users'[u] = users[u]]_vars

(***************************************************************************)
(* C30: an inactive destination has no active ad.                          *)
(***************************************************************************)
C30_InactiveChatNoActiveAd ==
    \A a \in 1..Len(ads) :
        ~chats[ads[a].chat_id].is_active => ~ads[a].is_active

\* the postings of ad_id waiting in queue q
QueuedCopies(q, ad_id) ==
    UNION {{<<i, k>> : k \in {n \in 1..Len(q[i].ads) : q[i].ads[n].ad_id = ad_id}} :
              i \in 1..Len(q)}

(***************************************************************************)
(* C31: the queue never holds two pending postings of the same ad: an ad   *)
(* that waits in the queue is not enqueued again by a later scan.          *)
(***************************************************************************)
C31_OnePendingPostingPerAd ==
    \A a \in 1..Len(ads) : Cardinality(QueuedCopies(ad_queue, a)) <= 1

(***************************************************************************)
(* C32: with every thread scheduled fairly, a destination that has a       *)
(* posting waiting in the queue has a posting taken by a worker in the     *)
(* end: no destination waits forever behind the first one of the map.      *)
(***************************************************************************)
C32_EveryChatServed ==
    \A c \in ChatIds :
        (PendingOf(ad_queue, c) # <<>>)
            ~> (\E w \in Workers : pc[w] = "post" /\ cur[w].chat_id = c)

\* the steps thread t takes inside its with self.lock block
QueueOpStep(t) ==
    IF t = SchedulerThread THEN RowCreate \/ RowAppend \/ RowRelease
    ELSE WorkerPop(t) \/ WorkerRelease(t)

\* a step of vars is a step of thread t
StepOf(t) ==
    IF t = SchedulerThread THEN sched_pc' # sched_pc ELSE pc'[t] # pc[t]

(***************************************************************************)
(* C33: the engine lock is held only for the in-memory queue operation: at *)
(* most one thread holds it, the holder is inside its with block and not   *)
(* in a send, a sleep or a delivery, a step of the holder writes no record *)
(* of the store, and the holder can always take its next step, so the      *)
(* threads never all wait on the lock.                                     *)
(***************************************************************************)
C33_LockOnlyForQueueOp ==
    [][/\ Cardinality(lock) <= 1
       /\ \A t \in lock : InQueueOp(t) /\ ENABLED QueueOpStep(t)
       /\ \A w \in Workers : Delivering(w) => w \notin lock
       /\ sched_pc \in {"sleep", "loop"} => SchedulerThread \notin lock
       /\ \A t \in lock : StepOf(t) => store' = store]_vars

\* one worker is in the grace-period sleep of a delivery while another,
\* inside its queue operation, has taken a posting
C33_Witness ==
    \E w, u \in Workers :
        /\ pc[w] = "sponsor_wait"
        /\ pc[u] = "unlock"
        /\ cur[u] # NoPosting
        /\ lock = {u}

(***************************************************************************)
(* C34: after an ad has been soft-deleted no send of it is started: the ad *)
(* of the posting a worker enters _post_ad with is active, also when the   *)
(* posting was in the queue when delete_ad ran.                            *)
(***************************************************************************)
C34_NoSendOfDeletedAd ==
    [][\A w \in Workers :
          (pc[w] = "post" /\ pc'[w] = "sending") => ads[cur[w].ad_id].is_active]_vars

(***************************************************************************)
(* C35: create_or_update_user on an account that exists changes only its   *)
(* username and first name: the tier and the tier-expiry timestamp of the  *)
(* account are the same after /start as before.                            *)
(***************************************************************************)
C35_StartKeepsTierAndExpiry ==
    [][\A u \in UserIds :
          (users[u].present /\ start_command(u)) =>
              /\ users'[u].tier = users[u].tier
              /\ users'[u].premium_until = users[u].premium_until]_vars

(***************************************************************************)
(* C36: in every reachable state an account that is not entitled (FREE, no *)
(* account, or PREMIUM past its expiry) owns at most FREE_USER_LIMIT       *)
(* active linked chats.                                                    *)
(***************************************************************************)
C36_FreeLimitKept ==
    \A u \in UserIds :
        ~is_premium(u) => Cardinality(get_user_chats(u)) <= FREE_USER_LIMIT

====
